---- MODULE Spec2Model ----
(***************************************************************************)
(* vibe-resume-ai (src/main.py): the rate limiter, the feature extractors  *)
(* and the three analyzers, with the HTTP handlers that call them.         *)
(*                                                                         *)
(* Four specifications share the module:                                   *)
(*   Spec      one request at a time against the quota table;              *)
(*   SpecConc  check_rate_limit run by several threads, step by step;      *)
(*   SpecFn    the pure functions applied to texts drawn at Init;          *)
(*   SpecFit   the skill comparison of match_resume_ai applied to skill    *)
(*             sets drawn at Init.                                         *)
(*                                                                         *)
(* A text is a sequence of lexical tokens: a whitespace run, a run of      *)
(* filler punctuation, a case-folded word, a digit run (kept digit by      *)
(* digit) or a one-character symbol.  The regular expressions of the       *)
(* source are matched token-wise; words are maximal, so two words never    *)
(* touch.                                                                  *)
(***************************************************************************)
EXTENDS Integers, Sequences, FiniteSets, TLC

VARIABLES
    PRO_KEYS,     \* main.py:32  the privileged keys
    rate_limits,  \* main.py:31  client id -> list of request times
    clock,        \* the last value datetime.now() returned (main.py:81)
    hist,         \* ghost: per client id, the day of its last request and how many it made that day
    last,         \* ghost: the last request, its locals and its response
    cq,           \* SpecConc: the one identity's list in rate_limits
    th,           \* SpecConc: per thread, pc and locals of check_rate_limit
    allowed,      \* SpecConc ghost: the number of requests allowed so far
    resume,       \* SpecFn: first input text
    job,          \* SpecFn: second input text
    out,          \* SpecFn: the last function applied and its result
    skill_sets,   \* SpecFit: the two skill sets match_resume_ai compares
    fit           \* SpecFit: what main.py:229-235 makes of them

vars == <<PRO_KEYS, rate_limits, clock, hist, last, cq, th, allowed, resume, job, out,
          skill_sets, fit>>
fitVars == <<skill_sets, fit>>
svcVars == <<PRO_KEYS, rate_limits, clock, hist, last>>
concVars == <<cq, th, allowed>>
fnVars == <<resume, job, out>>

Min(a, b) == IF a < b THEN a ELSE b
Max(a, b) == IF a > b THEN a ELSE b

(***************************************************************************)
(* Tokens and texts                                                        *)
(***************************************************************************)
Ws(n) == [k |-> "ws", w |-> "", n |-> n, d |-> <<>>]
Fill(n) == [k |-> "fill", w |-> "", n |-> n, d |-> <<>>]
Word(w) == [k |-> "word", w |-> w, n |-> 0, d |-> <<>>]
Num(d) == [k |-> "num", w |-> "", n |-> 0, d |-> d]
Sym(c) == [k |-> "sym", w |-> c, n |-> 0, d |-> <<>>]

\* len() of one token's characters
TokLen(t) ==
    CASE t.k = "ws" -> t.n
      [] t.k = "fill" -> t.n
      [] t.k = "word" -> Len(t.w)
      [] t.k = "num" -> Len(t.d)
      [] OTHER -> 1

\* len(text)
RECURSIVE TextLen(_)
TextLen(text) == IF text = <<>> THEN 0 ELSE TokLen(Head(text)) + TextLen(Tail(text))

\* str.strip(): leading and trailing whitespace removed
RECURSIVE LStrip(_)
LStrip(text) ==
    IF text # <<>> /\ Head(text).k = "ws" THEN LStrip(Tail(text)) ELSE text

RECURSIVE RStrip(_)
RStrip(text) ==
    IF text # <<>> /\ text[Len(text)].k = "ws"
    THEN RStrip(SubSeq(text, 1, Len(text) - 1))
    ELSE text

Strip(text) == RStrip(LStrip(text))

\* int() of a digit run
RECURSIVE IntOf(_)
IntOf(d) == IF d = <<>> THEN 0 ELSE 10 * IntOf(SubSeq(d, 1, Len(d) - 1)) + d[Len(d)]

\* the first index >= i that holds no whitespace (Len + 1 when there is none): \s*
RECURSIVE SkipWs(_, _)
SkipWs(text, i) ==
    IF i <= Len(text) /\ text[i].k = "ws" THEN SkipWs(text, i + 1) ELSE i

IsWord(text, i, ws) == i <= Len(text) /\ text[i].k = "word" /\ text[i].w \in ws
IsSym(text, i, c) == i <= Len(text) /\ text[i].k = "sym" /\ text[i].w = c
IsNum(text, i) == i <= Len(text) /\ text[i].k = "num"

\* words that are "year" or "years"; that begin with "year"; that begin or end with "experience"
YearWords == {"year", "years"}
YearPrefixWords == {"year", "years", "yearly"}
ExperiencePrefixWords == {"experience", "experienced"}
ExperienceSuffixWords == {"experience", "inexperience"}
(***************************************************************************)
(* Feature extractors (main.py:114-164)                                    *)
(***************************************************************************)
MaxSkills == 20

\* skill_patterns, case-folded (re.IGNORECASE); a keyword of several words or with
\* punctuation in it is one token
skill_patterns == <<
    {"python", "javascript", "typescript", "java", "c++", "c#", "go", "rust", "ruby",
     "php", "swift", "kotlin"},
    {"react", "vue", "angular", "node.js", "django", "flask", "fastapi", "spring", "rails"},
    {"aws", "azure", "gcp", "docker", "kubernetes", "terraform", "ci/cd"},
    {"postgresql", "mysql", "mongodb", "redis", "elasticsearch"},
    {"machine learning", "ai", "deep learning", "nlp", "computer vision"},
    {"agile", "scrum", "project management", "leadership", "communication"},
    {"git", "linux", "rest api", "graphql", "microservices"} >>

\* \b after "C++" or "C#" asks for a word character right behind the keyword, which a
\* delimited token never has: these two never match
NeedsWordCharBehind == {"c++", "c#"}

\* m.title() if len(m) > 3 else m.upper(): the case form the match is put in
Normalize(m) == [w |-> m, form |-> IF Len(m) > 3 THEN "title" ELSE "upper"]
Lower(s) == [w |-> s.w, form |-> "lower"]
Title(s) == [w |-> s.w, form |-> "title"]

\* re.findall(pattern, text, re.IGNORECASE) for one pattern of skill_patterns
FindSkills(pattern, text) ==
    { text[i].w : i \in { j \in 1..Len(text) :
          IsWord(text, j, pattern \ NeedsWordCharBehind) } }

\* list(skills)[:n]: the first n elements in the set's iteration order, which is
\* fixed for one set built one way
RECURSIVE TakeN(_, _)
TakeN(S, n) ==
    IF n = 0 \/ S = {} THEN {}
    ELSE LET x == CHOOSE y \in S : TRUE IN {x} \cup TakeN(S \ {x}, n - 1)

extract_skills(text) ==
    LET skills == UNION { { Normalize(m) : m \in FindSkills(skill_patterns[p], text) } :
                          p \in DOMAIN skill_patterns }
    IN TakeN(skills, MaxSkills)

\* r'(\d+)\+?\s*years?\s*(of)?\s*experience' matched with the digit run at token i
P1At(text, i) ==
    LET a == IF IsSym(text, i + 1, "+") THEN i + 2 ELSE i + 1
        b == SkipWs(text, a)
        c == SkipWs(text, b + 1)
        e == IF IsWord(text, c, {"of"}) THEN SkipWs(text, c + 1) ELSE c
    IN /\ IsNum(text, i)
       /\ IsWord(text, b, YearWords)
       /\ IsWord(text, e, ExperiencePrefixWords)

\* the first index >= i that holds neither ":" nor whitespace: [:\s]+
RECURSIVE SkipColonWs(_, _)
SkipColonWs(text, i) ==
    IF i <= Len(text) /\ (text[i].k = "ws" \/ IsSym(text, i, ":"))
    THEN SkipColonWs(text, i + 1) ELSE i

\* r'experience[:\s]+(\d+)\s*years?' matched with the word at token i
P2At(text, i) ==
    LET a == SkipColonWs(text, i + 1)
    IN /\ IsWord(text, i, ExperienceSuffixWords)
       /\ a > i + 1
       /\ IsNum(text, a)
       /\ IsWord(text, SkipWs(text, a + 1), YearPrefixWords)

\* re.search: the leftmost match (0: none)
SetMin(S) == CHOOSE x \in S : \A y \in S : x <= y
SetMax(S) == CHOOSE x \in S : \A y \in S : x >= y
SearchP1(text) ==
    LET S == { i \in 1..Len(text) : P1At(text, i) } IN IF S = {} THEN 0 ELSE SetMin(S)
SearchP2(text) ==
    LET S == { i \in 1..Len(text) : P2At(text, i) } IN IF S = {} THEN 0 ELSE SetMin(S)

\* re.findall(r'20\d{2}', ...) inside one digit run: left to right, not overlapping
RECURSIVE YearsIn(_)
YearsIn(d) ==
    IF Len(d) < 4 THEN <<>>
    ELSE IF d[1] = 2 /\ d[2] = 0
         THEN <<IntOf(SubSeq(d, 1, 4))>> \o YearsIn(SubSeq(d, 5, Len(d)))
         ELSE YearsIn(Tail(d))

RECURSIVE FindYears(_)
FindYears(text) ==
    IF text = <<>> THEN <<>>
    ELSE (IF Head(text).k = "num" THEN YearsIn(Head(text).d) ELSE <<>>)
         \o FindYears(Tail(text))

SeqRange(s) == { s[i] : i \in DOMAIN s }

UncappedYears(n) == n

\* the first branch of estimate_experience: min(int(match.group(1)), 30)
PhraseYears(n) == Min(n, 30)

estimate_experience(text) ==
    LET m1 == SearchP1(text)
        m2 == SearchP2(text)
        years == FindYears(text)
    IN IF m1 # 0 THEN PhraseYears(IntOf(text[m1].d))
       ELSE IF m2 # 0 THEN PhraseYears(IntOf(text[SkipColonWs(text, m2 + 1)].d))
       ELSE IF Len(years) >= 2
            THEN Min(Max(SetMax(SeqRange(years)) - SetMin(SeqRange(years)), 1), 20)
            ELSE 2

\* the keywords of the two education patterns, case-folded
DegreeWords == {"bachelor", "bachelors", "bachelor's", "master", "masters", "master's",
                "phd", "ph.d", "mba", "b.s.", "m.s.", "b.a.", "m.a."}
InstitutionWords == {"university", "college", "institute"}

\* the index of the next "," at or after i (Len + 1 when there is none): [^,\n]*
RECURSIVE NextComma(_, _)
NextComma(text, i) ==
    IF i > Len(text) \/ IsSym(text, i, ",") THEN i ELSE NextComma(text, i + 1)

\* findall of the degree pattern from token i on: a match runs on to the next comma
RECURSIVE DegreeMatches(_, _)
DegreeMatches(text, i) ==
    IF i > Len(text) THEN <<>>
    ELSE IF IsWord(text, i, DegreeWords)
         THEN <<text[i].w>> \o DegreeMatches(text, NextComma(text, i + 1))
         ELSE DegreeMatches(text, i + 1)

\* findall of the institution pattern: the keyword and at least one more character
\* that is no comma; the match runs on to the next comma
RECURSIVE InstitutionMatches(_, _)
InstitutionMatches(text, i) ==
    IF i > Len(text) THEN <<>>
    ELSE IF IsWord(text, i, InstitutionWords) /\ i < Len(text) /\ ~IsSym(text, i + 1, ",")
         THEN <<text[i].w>> \o InstitutionMatches(text, NextComma(text, i + 1))
         ELSE InstitutionMatches(text, i + 1)

FirstN(s, n) == SubSeq(s, 1, Min(Len(s), n))

extract_education(text) ==
    LET education == FirstN(DegreeMatches(text, 1), 3) \o FirstN(InstitutionMatches(text, 1), 3)
    IN IF education # <<>> THEN FirstN(education, 3) ELSE <<"Not specified">>
(***************************************************************************)
(* Analyzers (main.py:167-339).  The lists of an answer keep the source's  *)
(* strings; an f-string is kept without the value it formats, which the    *)
(* answer carries in a field of its own.  A list made from a set           *)
(* (matching_skills, missing_skills) is kept as the set.                   *)
(***************************************************************************)
\* words that hold "lead" or "manage"; one of the four verbs; "summary" or "objective"
LeadershipWords == {"lead", "leading", "leadership", "manage", "managed", "manager",
                    "project management"}
MetricVerbWords == {"achieved", "increased", "reduced", "delivered"}
SummaryWords == {"summary", "objective", "objectives"}
XPrefixWords == {"x"}

HasWord(text, ws) == \E i \in 1..Len(text) : IsWord(text, i, ws)

Contribution(s, g, i) == [strengths |-> s, gaps |-> g, improvements |-> i]

\* main.py:185-189
SkillRule(skills) ==
    IF Cardinality(skills) >= 5
    THEN Contribution(<<"Strong technical skill set">>, <<>>, <<>>)
    ELSE Contribution(<<>>, <<"Limited technical skills listed">>,
                      <<"Add more specific technical skills with proficiency levels">>)

\* main.py:191-194
ExperienceRule(experience) ==
    IF experience >= 3
    THEN Contribution(<<"Solid N years of experience">>, <<>>, <<>>)
    ELSE Contribution(<<>>, <<>>,
                      <<"Emphasize projects and achievements to compensate for experience">>)

\* main.py:196-200
LeadershipRule(text) ==
    IF HasWord(text, LeadershipWords)
    THEN Contribution(<<"Leadership experience indicated">>, <<>>, <<>>)
    ELSE Contribution(<<>>, <<"No leadership experience mentioned">>,
                      <<"Highlight any team leadership or mentoring experience">>)

\* main.py:202-206
MetricsRule(text) ==
    IF HasWord(text, MetricVerbWords)
    THEN Contribution(<<"Good use of action verbs and metrics">>, <<>>, <<>>)
    ELSE Contribution(<<>>, <<"Lacks quantifiable achievements">>,
                      <<"Add metrics: 'Increased X by Y%' or 'Reduced Z by N hours'">>)

\* main.py:208-210
LengthRule(text) ==
    IF TextLen(text) < 300
    THEN Contribution(<<>>, <<"Resume appears too short">>,
                      <<"Expand with more details about responsibilities and achievements">>)
    ELSE Contribution(<<>>, <<>>, <<>>)

OrDefault(list, default) == IF list # <<>> THEN list ELSE default

analyze_resume_ai(text) ==
    LET skills == extract_skills(text)
        experience == estimate_experience(text)
        education == extract_education(text)
        base_score == 50 + Min(Cardinality(skills) * 3, 20) + Min(experience * 2, 15)
                      + (IF education[1] # "Not specified" THEN 5 ELSE 0)
                      + (IF TextLen(text) > 500 THEN 5 ELSE 0)
                      + (IF TextLen(text) > 1500 THEN 5 ELSE 0)
        rules == << SkillRule(skills), ExperienceRule(experience), LeadershipRule(text),
                    MetricsRule(text), LengthRule(text) >>
        strengths == rules[1].strengths \o rules[2].strengths \o rules[3].strengths
                     \o rules[4].strengths \o rules[5].strengths
        gaps == rules[1].gaps \o rules[2].gaps \o rules[3].gaps \o rules[4].gaps
                \o rules[5].gaps
        improvements == rules[1].improvements \o rules[2].improvements
                        \o rules[3].improvements \o rules[4].improvements
                        \o rules[5].improvements
    IN [ skills |-> skills,
         experience_years |-> experience,
         education |-> education,
         strengths |-> OrDefault(strengths, <<"Good foundation">>),
         gaps |-> OrDefault(gaps, <<"None identified">>),
         improvements |-> OrDefault(improvements, <<"Continue building experience">>),
         overall_score |-> Min(base_score, 100),
         summary |-> IF base_score >= 70 THEN "Strong candidate for mid-senior roles."
                     ELSE "Good foundation, room for improvement.",
         \* the locals before the defaults are put in
         rules |-> rules,
         raw_strengths |-> strengths,
         raw_gaps |-> gaps,
         raw_improvements |-> improvements ]

\* int((len(matching) / len(job_skills)) * 100); the float product truncates to the
\* integer quotient for every 0 <= m <= j <= 20
RoundedRatio(m, j) == (200 * m + j) \div (2 * j)

FitRatio(m, j) == (100 * m) \div j

\* main.py:232-235: the fit score before the experience adjustment
BaseFit(matching, job_skills) ==
    IF job_skills # {} THEN FitRatio(Cardinality(matching), Cardinality(job_skills))
    ELSE 50

\* r'(\d+)\+?\s*years?' matched with the digit run at token i
JobExpAt(text, i) ==
    LET a == IF IsSym(text, i + 1, "+") THEN i + 2 ELSE i + 1
    IN IsNum(text, i) /\ IsWord(text, SkipWs(text, a), YearPrefixWords)

SearchJobExp(text) ==
    LET S == { i \in 1..Len(text) : JobExpAt(text, i) } IN IF S = {} THEN 0 ELSE SetMin(S)

AdjustInverted(score, resume_exp, job_desc) ==
    LET m == SearchJobExp(job_desc)
    IN IF m = 0 THEN score
       ELSE IF resume_exp < IntOf(job_desc[m].d) THEN Min(score + 10, 100)
       ELSE Max(score - 10, 0)

\* main.py:238-245
AdjustForExperience(score, resume_exp, job_desc) ==
    LET m == SearchJobExp(job_desc)
    IN IF m = 0 THEN score
       ELSE IF resume_exp >= IntOf(job_desc[m].d) THEN Min(score + 10, 100)
       ELSE Max(score - 10, 0)

\* main.py:229-235
CompareSkills(resume_skills, job_skills) ==
    LET matching == resume_skills \cap job_skills
    IN [ matching |-> matching,
         missing |-> job_skills \ resume_skills,
         fit_score |-> BaseFit(matching, job_skills) ]

match_resume_ai(res, job_desc) ==
    LET resume_skills == { Lower(s) : s \in extract_skills(res) }
        job_skills == { Lower(s) : s \in extract_skills(job_desc) }
        cmp == CompareSkills(resume_skills, job_skills)
        matching == cmp.matching
        missing == cmp.missing
        base == cmp.fit_score
        fit_score == AdjustForExperience(base, estimate_experience(res), job_desc)
        recommendations ==
            (IF missing # {} THEN <<"Consider gaining experience in: ...">> ELSE <<>>)
            \o (IF fit_score < 50
                THEN <<"This role may require skills you don't have yet">> ELSE <<>>)
            \o (IF fit_score >= 70
                THEN <<"Customize your resume to emphasize matching skills">> ELSE <<>>)
    IN [ fit_score |-> fit_score,
         matching_skills |-> { Title(s) : s \in matching },
         missing_skills |-> { Title(s) : s \in TakeN(missing, 10) },
         recommendations |->
             OrDefault(recommendations, <<"Tailor your application to the specific role">>),
         verdict |-> IF fit_score >= 80 THEN "Excellent match! Apply with confidence."
                     ELSE IF fit_score >= 60
                     THEN "Good match. Highlight relevant experience in your application."
                     ELSE IF fit_score >= 40
                     THEN "Moderate match. Consider upskilling or emphasizing transferable skills."
                     ELSE "Low match. This role may require significant skill development.",
         \* the locals
         job_skills |-> job_skills,
         matching |-> matching,
         base_fit |-> base ]

\* re.search(r'\d+%|\$\d+|\d+x', resume)
HasMetric(text) ==
    \E i \in 1..Len(text) :
        \/ IsNum(text, i) /\ IsSym(text, i + 1, "%")
        \/ IsSym(text, i, "$") /\ IsNum(text, i + 1)
        \/ IsNum(text, i) /\ IsWord(text, i + 1, XPrefixWords)

\* an absent target_role (None) and an empty one are both falsy
NoRole == ""

improve_resume_ai(res, target_role) ==
    LET noMetric == ~HasMetric(res)
        brief == TextLen(res) < 500
        noSummary == ~HasWord(res, SummaryWords)
        fewSkills == Cardinality(extract_skills(res)) < 5
        suggestions ==
            (IF noMetric THEN <<"Achievements">> ELSE <<>>)
            \o (IF brief THEN <<"Overall">> ELSE <<>>)
            \o (IF noSummary THEN <<"Summary">> ELSE <<>>)
            \o (IF fewSkills THEN <<"Skills">> ELSE <<>>)
            \o (IF target_role # NoRole THEN <<"Targeting">> ELSE <<>>)
        priorities ==
            (IF noMetric THEN <<"Add metrics to achievements">> ELSE <<>>)
            \o (IF brief THEN <<"Expand content">> ELSE <<>>)
            \o (IF noSummary THEN <<"Add professional summary">> ELSE <<>>)
            \o (IF fewSkills THEN <<"Expand skills section">> ELSE <<>>)
    IN [ suggestions |-> OrDefault(suggestions, <<"General">>),
         \* the dict as the sequence of its items
         rewritten_sections |->
             IF noSummary
             THEN << [ key |-> "summary", experience |-> estimate_experience(res),
                       skills |-> TakeN(extract_skills(res), 5) ] >>
             ELSE <<>>,
         action_items |-> << "Review each bullet point - does it show impact?",
                             "Add 2-3 metrics to your most recent role",
                             "Ensure contact info and LinkedIn are current",
                             "Get a peer review before applying",
                             "Customize for each application" >>,
         priority_order |-> OrDefault(priorities, <<"Maintain current quality">>) ]
(***************************************************************************)
(* The texts the functions are applied to.  A text is put together from a  *)
(* skill list, an experience phrase, a run of years, keywords and filler.  *)
(***************************************************************************)
MaxSkillCount == 5
MaxJobSkills == 3

SkillList == << "python", "aws", "docker", "react", "git", "go", "postgresql", "ai",
                "leadership", "node.js", "rust", "kubernetes", "redis", "nlp", "agile",
                "linux", "java", "vue", "azure", "mysql", "scrum", "graphql" >>

\* the digit run of a number
RECURSIVE DigitsOf(_)
DigitsOf(n) == IF n < 10 THEN <<n>> ELSE Append(DigitsOf(n \div 10), n % 10)

RECURSIVE SkillSegment(_)
SkillSegment(k) ==
    IF k = 0 THEN <<>>
    ELSE SkillSegment(k - 1) \o << Word(SkillList[k]), Sym(","), Ws(1) >>

ExpSegment(e) ==
    CASE e.form = "p1" ->
           << Num(DigitsOf(e.n)), Ws(1), Word("years"), Ws(1), Word("of"), Ws(1),
              Word("experience"), Sym("."), Ws(1) >>
      [] e.form = "p1plus" ->
           << Num(DigitsOf(e.n)), Sym("+"), Ws(1), Word("years"), Ws(1),
              Word("experience"), Sym("."), Ws(1) >>
      [] e.form = "p2" ->
           << Word("experience"), Sym(":"), Ws(1), Num(DigitsOf(e.n)), Ws(1),
              Word("years"), Sym("."), Ws(1) >>
      [] e.form = "bare" ->
           << Num(DigitsOf(e.n)), Ws(1), Word("years"), Ws(1), Word("at"), Ws(1),
              Word("acme"), Sym("."), Ws(1) >>
      [] e.form = "two" ->
           << Num(DigitsOf(e.n + 4)), Ws(1), Word("years"), Ws(1), Word("at"), Ws(1),
              Word("acme"), Sym(","), Ws(1), Num(DigitsOf(e.n)), Ws(1), Word("years"),
              Ws(1), Word("experience"), Sym("."), Ws(1) >>
      [] OTHER -> <<>>

RECURSIVE YearSegment(_)
YearSegment(ys) ==
    IF ys = <<>> THEN <<>>
    ELSE << Num(DigitsOf(Head(ys))), Sym("-"), Ws(1) >> \o YearSegment(Tail(ys))

Build(p) ==
    (IF p.pad > 0 THEN <<Ws(p.pad)>> ELSE <<>>)
    \o SkillSegment(p.nskills)
    \o ExpSegment(p.exp)
    \o YearSegment(p.yrs)
    \o (IF p.lead THEN << Word("lead"), Ws(1), Word("engineer"), Sym("."), Ws(1) >> ELSE <<>>)
    \o (IF p.verb
        THEN << Word("increased"), Ws(1), Word("throughput"), Ws(1), Word("by"), Ws(1),
                Num(<<3, 0>>), Sym("%"), Sym("."), Ws(1) >>
        ELSE <<>>)
    \o (IF p.edu THEN << Word("bachelor"), Ws(1), Word("of"), Ws(1), Word("science"),
                         Sym(",") >> ELSE <<>>)
    \o (IF p.fill > 0 THEN <<Fill(p.fill)>> ELSE <<>>)
    \o (IF p.pad > 0 THEN <<Ws(p.pad)>> ELSE <<>>)

NoPhrase == [form |-> "none", n |-> 0]
ExpPhrases ==
    { NoPhrase,
      [form |-> "p1", n |-> 0], [form |-> "p1", n |-> 3], [form |-> "p1", n |-> 40],
      [form |-> "p1plus", n |-> 5],
      [form |-> "p2", n |-> 1], [form |-> "p2", n |-> 31],
      [form |-> "bare", n |-> 2], [form |-> "bare", n |-> 10],
      [form |-> "two", n |-> 3] }
JobPhrases == { NoPhrase, [form |-> "bare", n |-> 2], [form |-> "bare", n |-> 10] }
YearRuns == { <<>>, <<2019>>, <<2020, 2020>>, <<2015, 2020, 2018>>, <<2001, 2030>> }
Styles ==
    { [lead |-> FALSE, verb |-> FALSE, edu |-> FALSE, fill |-> 60],
      [lead |-> TRUE, verb |-> FALSE, edu |-> TRUE, fill |-> 300],
      [lead |-> FALSE, verb |-> TRUE, edu |-> FALSE, fill |-> 600],
      [lead |-> TRUE, verb |-> TRUE, edu |-> TRUE, fill |-> 1600] }

Texts ==
    { Build([pad |-> 0, nskills |-> k, exp |-> e, yrs |-> y, lead |-> s.lead,
             verb |-> s.verb, edu |-> s.edu, fill |-> s.fill]) :
        k \in (0..MaxSkillCount) \cup {MaxSkills + 1}, e \in ExpPhrases, y \in YearRuns,
        s \in Styles }

JobTexts ==
    { Build([pad |-> 0, nskills |-> k, exp |-> e, yrs |-> <<>>, lead |-> FALSE,
             verb |-> FALSE, edu |-> FALSE, fill |-> 60]) :
        k \in 0..MaxJobSkills, e \in JobPhrases }

Roles == { NoRole, "Data Scientist" }

(***************************************************************************)
(* SpecFn: the pure functions on texts drawn at Init                       *)
(***************************************************************************)
FnInit ==
    /\ resume \in Texts
    /\ job \in JobTexts \cup {resume}
    /\ out = [fn |-> "none"]
    /\ PRO_KEYS = {} /\ rate_limits = <<>> /\ clock = 0 /\ hist = <<>>
    /\ last = [endpoint |-> "none"]
    /\ cq = <<>> /\ th = <<>> /\ allowed = 0
    /\ skill_sets = <<{}, {}>> /\ fit = [done |-> FALSE]

\* each behaviour applies one function to the inputs drawn
DoExtractSkills ==
    /\ out.fn = "none"
    /\ out' = [fn |-> "extract_skills", r |-> extract_skills(resume)]
    /\ UNCHANGED <<resume, job, svcVars, concVars, fitVars>>

DoEstimate ==
    /\ out.fn = "none"
    /\ out' = [fn |-> "estimate_experience", r |-> estimate_experience(resume)]
    /\ UNCHANGED <<resume, job, svcVars, concVars, fitVars>>

DoAnalyze ==
    /\ out.fn = "none"
    /\ out' = [fn |-> "analyze_resume_ai", r |-> analyze_resume_ai(resume)]
    /\ UNCHANGED <<resume, job, svcVars, concVars, fitVars>>

DoMatch ==
    /\ out.fn = "none"
    /\ out' = [fn |-> "match_resume_ai", r |-> match_resume_ai(resume, job)]
    /\ UNCHANGED <<resume, job, svcVars, concVars, fitVars>>

DoImprove ==
    /\ out.fn = "none"
    /\ \E role \in Roles :
         out' = [fn |-> "improve_resume_ai", role |-> role,
                 r |-> improve_resume_ai(resume, role)]
    /\ UNCHANGED <<resume, job, svcVars, concVars, fitVars>>

FnNext ==
    \/ DoExtractSkills
    \/ DoEstimate
    \/ DoAnalyze
    \/ DoMatch
    \/ DoImprove

SpecFn == FnInit /\ [][FnNext]_vars
(***************************************************************************)
(* SpecFit: main.py:229-235 on skill sets drawn at Init.  extract_skills   *)
(* returns at most MaxSkills skills, lower-cased by match_resume_ai.       *)
(***************************************************************************)
SkillRun(a, b) == { Lower(Normalize(SkillList[i])) : i \in a..b }

SkillSetPairs ==
    { <<SkillRun(a, b), SkillRun(1, j)>> :
        a \in 1..Len(SkillList), b \in 0..Len(SkillList), j \in 0..MaxSkills }

FitInit ==
    /\ skill_sets \in { p \in SkillSetPairs : Cardinality(p[1]) <= MaxSkills }
    /\ fit = [done |-> FALSE]
    /\ resume = <<>> /\ job = <<>> /\ out = [fn |-> "none"]
    /\ PRO_KEYS = {} /\ rate_limits = <<>> /\ clock = 0 /\ hist = <<>>
    /\ last = [endpoint |-> "none"]
    /\ cq = <<>> /\ th = <<>> /\ allowed = 0

DoCompare ==
    /\ ~fit.done
    /\ fit' = [done |-> TRUE, r |-> CompareSkills(skill_sets[1], skill_sets[2])]
    /\ UNCHANGED <<skill_sets, svcVars, concVars, fnVars>>

FitNext == DoCompare

SpecFit == FitInit /\ [][FitNext]_vars

(***************************************************************************)
(* Claims on the pure functions                                            *)
(***************************************************************************)
\* the text holds neither an explicit "N years experience" phrase nor two years 20dd
NoSignal(text) ==
    /\ \A i \in 1..Len(text) : ~P1At(text, i) /\ ~P2At(text, i)
    /\ Len(FindYears(text)) < 2

\* C5 as stated: estimate_experience returns an integer in 1..30, and 2 when the text
\* holds no explicit phrase and fewer than two years 20dd.
C5_Original ==
    out.fn = "estimate_experience" =>
        /\ out.r \in 1..30
        /\ NoSignal(resume) => out.r = 2

\* C5 amended: estimate_experience returns an integer in 0..30 (an explicit phrase
\* of 0 years gives 0), and 2 when the text holds no explicit phrase and fewer than
\* two years 20dd.
C5_Amended ==
    out.fn = "estimate_experience" =>
        /\ out.r \in 0..30
        /\ NoSignal(resume) => out.r = 2

\* estimate_experience applied to a text whose explicit phrase states 0 years
C5_Witness ==
    /\ out.fn = "estimate_experience"
    /\ SearchP1(resume) # 0
    /\ out.r = 0

\* C6 as stated: match_resume_ai(text, text) on a text with a detected skill returns
\* fit_score 100 and no missing skills.
C6_Original ==
    (out.fn = "match_resume_ai" /\ job = resume /\ extract_skills(resume) # {}) =>
        /\ out.r.fit_score = 100
        /\ out.r.missing_skills = {}

\* the first "N years" of the text asks for more years than estimate_experience finds
AsksMoreThanFound(text) ==
    \E i \in 1..Len(text) :
        /\ JobExpAt(text, i)
        /\ \A j \in 1..(i - 1) : ~JobExpAt(text, j)
        /\ IntOf(text[i].d) > estimate_experience(text)

\* C6 amended: match_resume_ai(text, text) on a text with a detected skill returns no
\* missing skills, and fit_score 100 unless the first "N years" of the text states
\* more years than estimate_experience finds in it, when fit_score is 90.
C6_Amended ==
    (out.fn = "match_resume_ai" /\ job = resume /\ extract_skills(resume) # {}) =>
        /\ out.r.missing_skills = {}
        /\ out.r.fit_score = IF AsksMoreThanFound(resume) THEN 90 ELSE 100

\* a text matched against itself that asks for more years than are found in it
C6_Witness ==
    /\ out.fn = "match_resume_ai"
    /\ job = resume
    /\ extract_skills(resume) # {}
    /\ AsksMoreThanFound(resume)
    /\ out.r.fit_score = 90

\* C8 as stated: before the experience adjustment the fit score is 100 * |matching| /
\* |job_skills| rounded to the nearest integer (no further than one half from the
\* quotient), and 50 when job_skills is empty.
C8_Original ==
    fit.done =>
        LET m == Cardinality(skill_sets[1] \cap skill_sets[2])
            j == Cardinality(skill_sets[2])
            d == 100 * m - j * fit.r.fit_score
        IN IF j = 0 THEN fit.r.fit_score = 50
           ELSE 2 * d <= j /\ -2 * d <= j

\* C8 amended: before the experience adjustment the fit score is 100 * |matching| /
\* |job_skills| rounded down to an integer, and 50 when job_skills is empty.
C8_Amended ==
    fit.done =>
        LET m == Cardinality(skill_sets[1] \cap skill_sets[2])
            j == Cardinality(skill_sets[2])
            f == fit.r.fit_score
        IN IF j = 0 THEN f = 50
           ELSE j * f <= 100 * m /\ 100 * m < j * (f + 1)

\* two of three job skills matched: the quotient 66.67 is no integer
C8_Witness ==
    /\ fit.done
    /\ Cardinality(skill_sets[2]) = 3
    /\ Cardinality(skill_sets[1] \cap skill_sets[2]) = 2
    /\ fit.r.fit_score = 66

RuleShape(c) == <<Len(c.strengths), Len(c.gaps), Len(c.improvements)>>

\* C9: every rule of analyze_resume_ai adds one strength, or one gap with one
\* improvement, or (not firing) nothing; so gaps and improvements are equally long
\* before the defaults are put in.
C9_Claim ==
    out.fn = "analyze_resume_ai" =>
        /\ \A r \in 1..5 :
             RuleShape(out.r.rules[r]) \in { <<1, 0, 0>>, <<0, 1, 1>>, <<0, 0, 0>> }
        /\ Len(out.r.raw_gaps) = Len(out.r.raw_improvements)
(***************************************************************************)
(* Access control (main.py:70-98).  Time is counted in ticks, TicksPerDay  *)
(* to the calendar day; tick 0 is a midnight.                              *)
(***************************************************************************)
FreeLimit == 3
MinTextLen == 50
TicksPerDay == 2
MaxReqPerDay == 4

\* requests come on two consecutive days
MaxTime == 2 * TicksPerDay - 1
MaxUploadBytes == 5 * 1024 * 1024

\* an absent header (None)
None == "None"
Truthy(h) == h # None /\ h # ""

\* hashlib.md5(client_ip.encode()).hexdigest()[:16] of the addresses used here
Md5Prefix(client_ip) ==
    CASE client_ip = "unknown" -> "ad921d6048636625"
      [] client_ip = "10.0.0.1" -> "190dafab69706a67"
      [] client_ip = "10.0.0.2" -> "98a2cd7efa1ba950"

\* X-Forwarded-For as the list of its comma-separated tokens; <<>>: absent or empty
ClientIp(x_forwarded_for) ==
    IF x_forwarded_for # <<>> THEN x_forwarded_for[1] ELSE "unknown"

get_client_id(x_api_key, x_forwarded_for) ==
    IF Truthy(x_api_key) /\ x_api_key \in PRO_KEYS
    THEN [id |-> x_api_key, tier |-> "pro"]
    ELSE [id |-> Md5Prefix(ClientIp(x_forwarded_for)), tier |-> "free"]

\* now.replace(hour=0, minute=0, second=0, microsecond=0)
DayStart(now) == now - (now % TicksPerDay)

\* defaultdict(list): a missing key reads as the empty list
Get(table, id) == IF id \in DOMAIN table THEN table[id] ELSE <<>>
Put(table, id, v) == [x \in DOMAIN table \cup {id} |-> IF x = id THEN v ELSE table[x]]

\* main.py:85: [t for t in rate_limits[client_id] if t > day_start]
Prune(list, day_start) == SelectSeq(list, LAMBDA t : t > day_start)

RateLimitEveryone(client, now, table) ==
    LET day_start == DayStart(now)
        pruned == Prune(Get(table, client.id), day_start)
    IN IF Len(pruned) >= FreeLimit
       THEN [allow |-> FALSE, table |-> Put(table, client.id, pruned), pruned |-> pruned,
             reset_at |-> day_start + TicksPerDay]
       ELSE [allow |-> TRUE, table |-> Put(table, client.id, Append(pruned, now)),
             pruned |-> pruned, reset_at |-> -1]

\* main.py:76-98; allow = FALSE stands for the HTTPException(429), whose detail
\* carries reset_at (kept as the time, not as its ISO text)
check_rate_limit(client, now, table) ==
    IF client.tier = "pro"
    THEN [allow |-> TRUE, table |-> table, pruned |-> <<>>, reset_at |-> -1]
    ELSE LET day_start == DayStart(now)
             pruned == Prune(Get(table, client.id), day_start)
         IN IF Len(pruned) >= FreeLimit
            THEN [allow |-> FALSE, table |-> Put(table, client.id, pruned),
                  pruned |-> pruned, reset_at |-> day_start + TicksPerDay]
            ELSE [allow |-> TRUE, table |-> Put(table, client.id, Append(pruned, now)),
                  pruned |-> pruned, reset_at |-> -1]

(***************************************************************************)
(* HTTP handlers (main.py:358-407).  Depends(check_rate_limit) runs before *)
(* the handler's body.                                                     *)
(***************************************************************************)
TooShortUnstripped(text) == TextLen(text) < MinTextLen

\* len(text.strip()) < 50
TooShort(text) == TextLen(Strip(text)) < MinTextLen

\* ASCII content: every decoding of extract_text_from_upload gives its characters
extract_text_from_upload(content, filename) ==
    IF filename = "resume.txt" THEN content
    ELSE IF Strip(content) # <<>> THEN content
    ELSE content

NoBody == [kind |-> "none"]

BodyThenDepends(client, now, table, invalid, result) ==
    IF invalid
    THEN [status |-> 400, body |-> NoBody, rl |-> [allow |-> TRUE, table |-> table,
                                                  pruned |-> <<>>, reset_at |-> -1]]
    ELSE LET rl == check_rate_limit(client, now, table)
         IN [status |-> IF rl.allow THEN 200 ELSE 429,
             body |-> IF rl.allow THEN result ELSE NoBody, rl |-> rl]

\* the dependency, then the body: 429 from check_rate_limit, else 400 from the
\* handler's validation, else the answer
Handle(client, now, table, invalid, result) ==
    LET rl == check_rate_limit(client, now, table)
    IN [status |-> IF ~rl.allow THEN 429 ELSE IF invalid THEN 400 ELSE 200,
        body |-> IF rl.allow /\ ~invalid THEN result ELSE NoBody,
        rl |-> rl]

ApiKeys == { None, "", "key-a" }
ProKeys == { "", "key-a" }
FwdHeaders == { <<>>, <<"unknown", "10.0.0.2">> }

RichText ==
    Build([pad |-> 0, nskills |-> 3, exp |-> [form |-> "p1", n |-> 5], yrs |-> <<>>,
           lead |-> TRUE, verb |-> TRUE, edu |-> FALSE, fill |-> 60])
ReqTexts == { << Ws(6), Fill(49), Ws(6) >>, RichText }
Files == ReqTexts \cup { <<Fill(MaxUploadBytes + 1)>> }
Filenames == { "resume.txt", "resume.pdf" }

\* the analyzers' answers for the request texts, computed once
AnalysisOf == [t \in Files |-> analyze_resume_ai(t)]
MatchOf == [t \in ReqTexts \X ReqTexts |-> match_resume_ai(t[1], t[2])]
ImproveOf == [t \in ReqTexts \X Roles |-> improve_resume_ai(t[1], t[2])]

\* the number of the request among those a free client made on the day of now
RequestNo(id, now) ==
    IF id \in DOMAIN hist /\ hist[id].day = DayStart(now) THEN hist[id].n + 1 ELSE 1

\* one request: the state after it, and the ghost record of it
Serve(endpoint, x_api_key, x_forwarded_for, now, invalid, short, result) ==
    LET client == get_client_id(x_api_key, x_forwarded_for)
        h == Handle(client, now, rate_limits, invalid, result)
        k == RequestNo(client.id, now)
    IN /\ client.tier = "free" => k <= MaxReqPerDay
       /\ rate_limits' = h.rl.table
       /\ clock' = now
       /\ hist' = IF client.tier = "free"
                  THEN Put(hist, client.id, [day |-> DayStart(now), n |-> k])
                  ELSE hist
       /\ last' = [ endpoint |-> endpoint,
                    \* the privileged key presented, if any
                    prokey |-> IF x_api_key # None /\ x_api_key # "" /\ x_api_key \in PRO_KEYS
                               THEN x_api_key ELSE None,
                    client |-> client, status |-> h.status,
                    reset_at |-> h.rl.reset_at, pruned |-> h.rl.pruned,
                    short |-> short, body |-> h.body ]
       /\ UNCHANGED <<PRO_KEYS, concVars, fnVars, fitVars>>

\* main.py:358-367
analyze_resume ==
    \E key \in ApiKeys, fwd \in FwdHeaders, now \in clock..MaxTime, text \in ReqTexts :
        Serve("/analyze", key, fwd, now, TooShort(text),
              TextLen(Strip(text)) < MinTextLen,
              [kind |-> "analysis", r |-> AnalysisOf[text]])

\* main.py:369-383
analyze_resume_upload ==
    \E key \in ApiKeys, fwd \in FwdHeaders, now \in clock..MaxTime, content \in Files,
       filename \in Filenames :
        LET text == extract_text_from_upload(content, filename)
            large == TextLen(content) > MaxUploadBytes
        IN Serve("/analyze/upload", key, fwd, now, large \/ TooShort(text),
                 TextLen(Strip(text)) < MinTextLen,
                 [kind |-> "analysis", r |-> AnalysisOf[text]])

\* main.py:385-396
match_resume ==
    \E key \in ApiKeys, fwd \in FwdHeaders, now \in clock..MaxTime,
       resume_text \in ReqTexts, job_description \in ReqTexts :
        Serve("/match", key, fwd, now, TooShort(resume_text) \/ TooShort(job_description),
              \/ TextLen(Strip(resume_text)) < MinTextLen
              \/ TextLen(Strip(job_description)) < MinTextLen,
              [kind |-> "match", r |-> MatchOf[<<resume_text, job_description>>]])

\* main.py:398-407
improve_resume ==
    \E key \in ApiKeys, fwd \in FwdHeaders, now \in clock..MaxTime,
       resume_text \in ReqTexts, target_role \in Roles :
        Serve("/improve", key, fwd, now, TooShort(resume_text),
              TextLen(Strip(resume_text)) < MinTextLen,
              [kind |-> "improve", r |-> ImproveOf[<<resume_text, target_role>>]])

\* PRO_KEYS has no writer in main.py ("in production, store in database"): it is
\* what the deployment provisions, fixed here for a run
Init ==
    /\ PRO_KEYS \in { {}, ProKeys }
    /\ rate_limits = <<>>
    /\ clock = 0
    /\ hist = <<>>
    /\ last = [endpoint |-> "none"]
    /\ cq = <<>> /\ th = <<>> /\ allowed = 0
    /\ resume = <<>> /\ job = <<>> /\ out = [fn |-> "none"]
    /\ skill_sets = <<{}, {}>> /\ fit = [done |-> FALSE]

Next ==
    \/ analyze_resume
    \/ analyze_resume_upload
    \/ match_resume
    \/ improve_resume

Spec == Init /\ [][Next]_vars
(***************************************************************************)
(* SpecConc: check_rate_limit is a plain def, which the framework runs in  *)
(* a thread pool: the requests of one free identity run it concurrently,   *)
(* within one calendar day.  A thread's steps are the statements of        *)
(* main.py:85-97.                                                          *)
(***************************************************************************)
NThreads == 5

Threads == 1..NThreads

\* all requests come at one time of the day
ConcNow == TicksPerDay - 1

ConcInit ==
    /\ cq = <<>>
    /\ th = [t \in Threads |-> [pc |-> "start", filtered |-> <<>>]]
    /\ allowed = 0
    /\ PRO_KEYS = {} /\ rate_limits = <<>> /\ clock = 0 /\ hist = <<>>
    /\ last = [endpoint |-> "none"]
    /\ resume = <<>> /\ job = <<>> /\ out = [fn |-> "none"]
    /\ skill_sets = <<{}, {}>> /\ fit = [done |-> FALSE]

\* main.py:85, right-hand side: the comprehension reads the list
Filter(t) ==
    /\ th[t].pc = "start"
    /\ th' = [th EXCEPT ![t] = [pc |-> "filtered",
                                filtered |-> Prune(cq, DayStart(ConcNow))]]
    /\ UNCHANGED <<cq, allowed, svcVars, fnVars, fitVars>>

\* main.py:85, the assignment: the list in the table is replaced
Store(t) ==
    /\ th[t].pc = "filtered"
    /\ cq' = th[t].filtered
    /\ th' = [th EXCEPT ![t].pc = "stored"]
    /\ UNCHANGED <<allowed, svcVars, fnVars, fitVars>>

\* main.py:87-95
CheckLen(t) ==
    /\ th[t].pc = "stored"
    /\ th' = [th EXCEPT ![t].pc = IF Len(cq) >= FreeLimit THEN "rejected" ELSE "append"]
    /\ UNCHANGED <<cq, allowed, svcVars, fnVars, fitVars>>

\* main.py:97-98
AppendNow(t) ==
    /\ th[t].pc = "append"
    /\ cq' = Append(cq, ConcNow)
    /\ th' = [th EXCEPT ![t].pc = "allowed"]
    /\ allowed' = allowed + 1
    /\ UNCHANGED <<svcVars, fnVars, fitVars>>

ConcNext ==
    \E t \in Threads :
        \/ Filter(t)
        \/ Store(t)
        \/ CheckLen(t)
        \/ AppendNow(t)

SpecConc == ConcInit /\ [][ConcNext]_vars

(***************************************************************************)
(* Claims on access control and the handlers                               *)
(***************************************************************************)
Served == last.endpoint # "none"

\* C1: of the requests a free identity makes on one calendar day, the first three are
\* allowed and the fourth is rejected with 429 and reset_at at the next day's start.
C1_Claim ==
    (Served /\ last.client.tier = "free") =>
        LET k == hist[last.client.id].n
        IN /\ k <= FreeLimit => last.status # 429
           /\ k = FreeLimit + 1 =>
                /\ last.status = 429
                /\ last.reset_at = DayStart(clock) + TicksPerDay

\* C2: a request with a non-empty key of PRO_KEYS is identified as pro tier with the
\* key as id, is never rejected with 429, and leaves the quota table as it was.
C2_Theorem ==
    [][ last'.prokey # None =>
          /\ last'.client = [id |-> last'.prokey, tier |-> "pro"]
          /\ last'.status # 429
          /\ rate_limits' = rate_limits ]_vars

\* a pro request answered while the free identity is at its limit
C2_Witness ==
    /\ Served
    /\ last.prokey = "key-a"
    /\ last.client.tier = "pro"
    /\ last.status = 200
    /\ \E id \in DOMAIN rate_limits : Len(rate_limits[id]) = FreeLimit

\* C3: with the requests of one free identity running check_rate_limit concurrently,
\* at most FreeLimit + 1 of them are allowed within the day.
C3_Claim == allowed <= FreeLimit + 1

AnalysisEndpoints == { "/analyze", "/match", "/improve" }

\* C4 as stated: a request to /analyze, /match or /improve with a required text of
\* trimmed length below 50 is answered 400, and no analysis result is produced.
C4_Original ==
    (Served /\ last.endpoint \in AnalysisEndpoints /\ last.short) =>
        /\ last.status = 400
        /\ last.body = NoBody

\* the quota check rejected the last request
QuotaRejected == last.client.tier = "free" /\ Len(last.pruned) >= FreeLimit

\* C4 amended: such a request is answered 400 when the quota check allows it and 429
\* when the quota check rejects it, and no analysis result is produced either way.
C4_Amended ==
    (Served /\ last.endpoint \in AnalysisEndpoints /\ last.short) =>
        /\ last.status = IF QuotaRejected THEN 429 ELSE 400
        /\ last.body = NoBody

\* a short text answered 400
C4_Witness ==
    /\ Served
    /\ last.endpoint \in AnalysisEndpoints
    /\ last.short
    /\ last.status = 400

\* C7: the timestamps check_rate_limit keeps for a free identity are exactly those of
\* the list that are >= the start of now's calendar day.
C7_Claim ==
    [][ last'.client.tier = "free" =>
          LET day_start == DayStart(clock')
          IN last'.pruned =
               SelectSeq(Get(rate_limits, last'.client.id), LAMBDA t : t >= day_start) ]_vars

\* C10: the quota check runs before validation: a free request answered 400 has its
\* timestamp appended to the identity's list, one answered 429 has none appended.
C10_Theorem ==
    (Served /\ last.client.tier = "free") =>
        /\ last.status = 400 =>
             Get(rate_limits, last.client.id) = Append(last.pruned, clock)
        /\ last.status = 429 =>
             /\ Get(rate_limits, last.client.id) = last.pruned
             /\ Len(last.pruned) >= FreeLimit
        /\ (last.short /\ Len(last.pruned) >= FreeLimit) => last.status = 429

\* a request that failed validation took the identity's last free slot of the day
C10_Witness ==
    /\ Served
    /\ last.client.tier = "free"
    /\ last.status = 400
    /\ Len(Get(rate_limits, last.client.id)) = FreeLimit
====
